---------------------------- MODULE Spec2Model ----------------------------
(***************************************************************************)
(* Flood simulation front ends banjir_new3.py and uji_coba_banjir_TIF.py.  *)
(*                                                                         *)
(* One behaviour is one run of one of the two scripts, top to bottom, on   *)
(* the widget values and the uploaded raster chosen in Init.               *)
(*                                                                         *)
(* Numbers.  rasterio hands the band over in the sample type of the file;  *)
(* the model fixes Float32, the sample type of DEM GeoTIFFs with NaN       *)
(* cells.  numpy then evaluates "inflow_volume - elevation + min" cell by  *)
(* cell in float32, each operation rounded to nearest, ties to even.  A    *)
(* float32 is modelled as [m |-> mantissa, e |-> exponent] with value      *)
(* m * 2^e, normalised (m = 0 and e = 0, or 2^23 <= |m| < 2^24), so two    *)
(* floats are equal iff their records are.  NaN is a record of its own and  *)
(* occurs in uploaded rasters only; samples are finite or NaN, and every   *)
(* raster has a finite sample.  Python floats (float64) are modelled by    *)
(* the exact rational [n, d] they approximate; their cast to float32 is    *)
(* the rounding of that rational.                                          *)
(***************************************************************************)
EXTENDS Integers, Sequences, FiniteSets, TLC

\* ------------------------------------------------------------------------
\* float32 arithmetic

\* Significand width of float32, the dtype dataset.read(1) returns.
Prec == 24

Pow2(k) == 2 ^ k

Abs(i) == IF i < 0 THEN -i ELSE i

Sign(i) == IF i < 0 THEN -1 ELSE 1

\* Number of bits of n >= 1 (n < 2^30).
BitLen(n) == CHOOSE k \in 1..30 : Pow2(k - 1) <= n /\ n < Pow2(k)

FZero == [m |-> 0, e |-> 0]

\* s * 2^x (s an integer, |s| < 2^30) rounded to Prec bits, ties to even.
FRound(s, x) ==
    IF s = 0 THEN FZero
    ELSE LET a  == Abs(s)
             k  == BitLen(a)
         IN IF k <= Prec
            THEN [m |-> s * Pow2(Prec - k), e |-> x - (Prec - k)]
            ELSE LET sh   == k - Prec
                     q    == a \div Pow2(sh)
                     r    == a % Pow2(sh)
                     half == Pow2(sh - 1)
                     up   == r > half \/ (r = half /\ q % 2 = 1)
                     q1   == IF up THEN q + 1 ELSE q
                 IN IF q1 = Pow2(Prec)
                    THEN [m |-> Sign(s) * Pow2(Prec - 1), e |-> x + sh + 1]
                    ELSE [m |-> Sign(s) * q1, e |-> x + sh]

\* The float32 of an integer (|i| < 2^30).
FInt(i) == FRound(i, 0)

FNeg(a) == [m |-> -(a.m), e |-> a.e]

\* a + b in float32.  The operand of smaller exponent is aligned to three
\* bits below the other's last place; what is shifted out is kept as a
\* sticky last bit, which leaves the rounding of the exact sum unchanged.
FAdd(a, b) ==
    IF a.m = 0 THEN b
    ELSE IF b.m = 0 THEN a
    ELSE LET hi == IF a.e >= b.e THEN a ELSE b
             lo == IF a.e >= b.e THEN b ELSE a
             d  == hi.e - lo.e
         IN IF d >= Prec + 3 THEN hi
            ELSE IF d <= 3
            THEN FRound(hi.m * Pow2(d) + lo.m, lo.e)
            ELSE LET la  == Abs(lo.m)
                     q   == la \div Pow2(d - 3)
                     st  == IF la % Pow2(d - 3) # 0 /\ q % 2 = 0 THEN 1 ELSE 0
                 IN FRound(hi.m * 8 + Sign(lo.m) * (q + st), hi.e - 3)

FSub(a, b) == FAdd(a, FNeg(b))

\* a < b on floats.
FLess(a, b) ==
    IF a.m < 0 /\ b.m >= 0 THEN TRUE
    ELSE IF a.m >= 0 /\ b.m <= 0 THEN FALSE
    ELSE IF a.m = 0 THEN TRUE
    ELSE IF a.m > 0
         THEN a.e < b.e \/ (a.e = b.e /\ a.m < b.m)
         ELSE a.e > b.e \/ (a.e = b.e /\ a.m < b.m)

FLeq(a, b) == a = b \/ FLess(a, b)

\* The NaN sample: an exponent no finite float32 has.
NaN == [m |-> 1, e |-> 128]

IsNaN(c) == c.e = 128

\* ------------------------------------------------------------------------
\* Python floats, as the rationals n / d (n >= 0, d > 0) they approximate

Rat(n, d) == [n |-> n, d |-> d]

RatEq(p, q) == p.n * q.d = q.n * p.d

RECURSIVE RatBits(_, _, _, _)
\* Binary long division: the quotient q (with remainder r over d) taken to
\* Prec bits, s binary places behind the point.
RatBits(q, r, d, s) ==
    IF q >= Pow2(Prec - 1) THEN [q |-> q, r |-> r, s |-> s]
    ELSE RatBits(2 * q + (IF 2 * r >= d THEN 1 ELSE 0), (2 * r) % d, d, s + 1)

\* The float32 nearest to n / d (0 <= n / d < 2^23): the cast numpy applies
\* to a Python float that meets a float32 array.
FFromRat(p) ==
    IF p.n = 0 THEN FZero
    ELSE LET b  == RatBits(p.n \div p.d, p.n % p.d, p.d, 0)
             up == 2 * b.r > p.d \/ (2 * b.r = p.d /\ b.q % 2 = 1)
         IN FRound(IF up THEN b.q + 1 ELSE b.q, -(b.s))

\* ------------------------------------------------------------------------
\* numpy on grids.  A grid is a function [0..rows-1 -> [0..cols-1 -> cell]].

Rows(g) == Cardinality(DOMAIN g)

Cols(g) == Cardinality(DOMAIN g[0])

Cells(g) == {<<r, c>> : r \in DOMAIN g, c \in DOMAIN g[0]}

\* Position of a cell in the flattened (row-major) array.
Flat(g, pos) == pos[1] * Cols(g) + pos[2]

\* The least of a non-empty set of floats.
FMinOf(S) == CHOOSE v \in S : \A w \in S : FLeq(v, w)

\* np.nanmin: the least sample that is not NaN.
nanmin(g) == FMinOf({g[p[1]][p[2]] : p \in {q \in Cells(g) : ~IsNaN(g[q[1]][q[2]])}})

\* np.min of a grid without NaN.
min(g) == FMinOf({g[p[1]][p[2]] : p \in Cells(g)})

\* Mutant of nan_to_num: the default nan=0.0 instead of the least sample.
nan_to_num_zero(g, v) ==
    [r \in DOMAIN g |-> [c \in DOMAIN g[r] |-> IF IsNaN(g[r][c]) THEN FZero ELSE g[r][c]]]

\* np.nan_to_num(g, nan=v) on finite-or-NaN samples.
nan_to_num(g, v) ==
    [r \in DOMAIN g |-> [c \in DOMAIN g[r] |-> IF IsNaN(g[r][c]) THEN v ELSE g[r][c]]]

\* Mutant of maximum0: the clamp forgotten.
maximum0_unclamped(v) == v

\* np.maximum(0, v)
maximum0(v) == IF FLess(FZero, v) THEN v ELSE FZero

\* The greatest of a non-empty set of floats.
FMaxOf(S) == CHOOSE v \in S : \A w \in S : FLeq(w, v)

\* np.unravel_index(np.argmax(g), g.shape): the first cell, in row-major
\* order, that holds the greatest value.
argmax(g) ==
    LET top  == FMaxOf({g[p[1]][p[2]] : p \in Cells(g)})
        hits == {p \in Cells(g) : g[p[1]][p[2]] = top}
    IN CHOOSE p \in hits : \A q \in hits : Flat(g, p) <= Flat(g, q)

\* Mutant of linspace: endpoint=False, the stop value left out.
linspace_no_endpoint(start, stop, num) ==
    [i \in 0..(num - 1) |-> Rat(start * num + i * (stop - start), num)]

\* np.linspace(start, stop, num): num rationals from start to stop; the
\* last one is set to stop, a single one is start.
linspace(start, stop, num) ==
    [i \in 0..(num - 1) |->
        IF num = 1 THEN Rat(start, 1)
        ELSE IF i = num - 1 THEN Rat(stop, 1)
        ELSE Rat(start * (num - 1) + i * (stop - start), num - 1)]

\* np.maximum(0, volume - elevation + np.min(elevation)), the flood depth of
\* every cell, volume being a Python float.
level(volume, elevation) ==
    LET v  == FFromRat(volume)
        lo == min(elevation)
    IN [r \in DOMAIN elevation |-> [c \in DOMAIN elevation[r] |->
            maximum0(FAdd(FSub(v, elevation[r][c]), lo))]]

\* ------------------------------------------------------------------------
\* cv2.resize(src, (0, 0), fx=scale, fy=scale, interpolation=cv2.INTER_AREA)

\* cvRound(n / d): to the nearest integer, a half to the even one.
cvRound(n, d) ==
    LET q == n \div d
        r == n % d
    IN IF 2 * r > d \/ (2 * r = d /\ q % 2 = 1) THEN q + 1 ELSE q

Max(a, b) == IF a >= b THEN a ELSE b

\* min(MAX_RES / rows, MAX_RES / cols) is MAX_RES over the longer side.  The
\* quotient is a Python float; it is exact for the rasters of Init, whose
\* longer side is MAX_RES times or divided by a power of two.
Scale(MAX_RES, g) == Rat(MAX_RES, Max(Rows(g), Cols(g)))

\* dsize = (cvRound(cols * fx), cvRound(rows * fy)), here as (rows, cols).
dsize(g, scale) ==
    <<cvRound(Rows(g) * scale.n, scale.d), cvRound(Cols(g) * scale.n, scale.d)>>

\* v / 2^k, exact in float32.
FShr(v, k) == IF v.m = 0 THEN v ELSE [m |-> v.m, e |-> v.e - k]

RECURSIVE Log2(_)
Log2(n) == IF n <= 1 THEN 0 ELSE 1 + Log2(n \div 2)

RECURSIVE BlockSum(_, _, _, _, _)
\* The sum of the k x k block of src at (r0, c0), accumulated in float32
\* cell after cell, row after row, from the i-th cell of the block on.
BlockSum(src, r0, c0, k, i) ==
    IF i < 0 THEN FZero
    ELSE FAdd(BlockSum(src, r0, c0, k, i - 1), src[r0 + (i \div k)][c0 + (i % k)])

\* INTER_AREA on a grid whose scale is a whole number (every source cell
\* repeated scale x scale times), one (the grid itself) or one over a power
\* of two k (every k x k block replaced by its mean).  Other scales take a
\* product of two significands and are not modelled; Init has none.
INTER_AREA(src, scale, size) ==
    LET up == scale.n \div scale.d
        k  == scale.d \div scale.n
    IN [r \in 0..(size[1] - 1) |-> [c \in 0..(size[2] - 1) |->
          CASE scale.n >= scale.d /\ scale.n % scale.d = 0
                 -> src[r \div up][c \div up]
            [] scale.n < scale.d /\ scale.d % scale.n = 0 /\ Pow2(Log2(k)) = k
                 -> FShr(BlockSum(src, r * k, c * k, k, k * k - 1), 2 * Log2(k))]]

\* ------------------------------------------------------------------------
\* The two scripts

VARIABLES
    script,             \* which of the two files runs
    mode,               \* st.sidebar.selectbox("Mode Tampilan") (uji_coba)
    rain_mm_per_hour,   \* slider
    duration_minutes,   \* slider
    threshold,          \* slider, a Python float
    dem_file,           \* st.file_uploader: None or the uploaded raster
    pc,                 \* where the run is
    elevation, bounds, rows, cols, x, y,
    inflow_volume, water_level, max_pos, max_water,
    notice,             \* what st.error/success/warning/info showed
    fig,                \* the static chart handed to st.plotly_chart
    frames, t,          \* the animation loop
    fig_anim            \* the animated chart handed to st.plotly_chart

vars == <<script, mode, rain_mm_per_hour, duration_minutes, threshold, dem_file,
          pc, elevation, bounds, rows, cols, x, y, inflow_volume, water_level,
          max_pos, max_water, notice, fig, frames, t, fig_anim>>

Banjir == "banjir_new3"

UjiCoba == "uji_coba_banjir_TIF"

None == [name |-> "None"]

\* Largest number of cells of the rasters enumerated for banjir_new3.
MaxCells == 3

\* Elevation samples: a summit and two neighbouring floats of a sea trench,
\* -8192 and the next float32 above it, -8192 + 2^-11.
Summit == FInt(5000)

Trench == FInt(-8192)

TrenchRim == [m |-> -16777215, e |-> -11]

Samples == {Summit, Trench, TrenchRim, NaN}

Bounds(left, right, top, bottom) ==
    [left |-> left, right |-> right, top |-> top, bottom |-> bottom]

Raster(data, bbox) == [name |-> "dem.tif", data |-> data, bounds |-> bbox]

HasSample(g) == \E p \in Cells(g) : ~IsNaN(g[p[1]][p[2]])

\* Shapes <<rows, cols>> of at most MaxCells cells.
Shapes == {sh \in (1..MaxCells) \X (1..MaxCells) : sh[1] * sh[2] <= MaxCells}

\* Every raster of at most MaxCells cells over Samples that has a sample.
SmallRasters ==
    UNION {
      {Raster(g, Bounds(0, 10, 10, 0)) :
          g \in {h \in [0..(sh[1] - 1) -> [0..(sh[2] - 1) -> Samples]] :
                    HasSample(h)}} :
      sh \in Shapes}

\* The raster [[0, 1], [2, 3]] on the square from 0 to side.
Scenario(side) ==
    Raster([r \in 0..1 |-> [c \in 0..1 |-> FInt(2 * r + c)]],
           Bounds(0, side, side, 0))

\* Long thin rasters, whose cells repeat a pattern in row-major order.
Patterns == {<<TrenchRim, Trench>>, <<NaN, Summit, Trench>>}

Thin(r, c, pat) ==
    Raster([i \in 0..(r - 1) |-> [j \in 0..(c - 1) |->
               pat[((i * c + j) % Len(pat)) + 1]]], Bounds(0, 10, 10, 0))

ThinRasters == {Thin(sh[1], sh[2], pat) :
                   sh \in {<<75, 1>>, <<300, 1>>, <<300, 2>>}, pat \in Patterns}

Rasters(s) ==
    IF s = Banjir THEN SmallRasters \cup {Scenario(1), Scenario(10)} ELSE ThinRasters

\* Slider positions <<rain, duration, threshold>>, within each script's
\* slider ranges.  The thresholds are binary fractions, so that the
\* comparison with a float32 does not depend on how numpy promotes it.
Sliders(s) ==
    {<<124, 121, Rat(1, 4)>>, <<300, 100, Rat(1, 2)>>}
       \cup (IF s = Banjir THEN {<<3600, 60, Rat(1, 4)>>} ELSE {})

MAX_RES == IF mode = "Ringan" THEN 150 ELSE 300

\* ANIM_STEPS, and the steps = 20 of banjir_new3
steps == IF script = UjiCoba /\ mode = "Ringan" THEN 10 ELSE 20

\* Default of the slider "Durasi Animasi (detik)".
durasi_animasi == 10

Empty == << >>

Init ==
    /\ script \in {Banjir, UjiCoba}
    /\ mode \in IF script = UjiCoba THEN {"Ringan", "Detail"} ELSE {"-"}
    /\ \E sl \in Sliders(script) :
          /\ rain_mm_per_hour = sl[1]
          /\ duration_minutes = sl[2]
          /\ threshold = sl[3]
    /\ dem_file \in {None} \cup Rasters(script)
    /\ pc = "start"
    /\ elevation = Empty /\ bounds = Empty /\ rows = 0 /\ cols = 0
    /\ x = Empty /\ y = Empty
    /\ inflow_volume = Rat(0, 1) /\ water_level = Empty
    /\ max_pos = Empty /\ max_water = FZero
    /\ notice = Empty /\ fig = Empty /\ frames = Empty /\ t = 0
    /\ fig_anim = Empty

\* np.meshgrid(x, y): X[r][c] = x[c] and Y[r][c] = y[r]
X == [r \in 0..(rows - 1) |-> [c \in 0..(cols - 1) |-> x[c]]]

Y == [r \in 0..(rows - 1) |-> [c \in 0..(cols - 1) |-> y[r]]]

\* Mutant of Prompt: the prompt outside the else branch, shown with a raster
\* too.
PromptAlways ==
    /\ pc = "start"
    /\ notice' = <<[kind |-> IF script = Banjir THEN "warning" ELSE "info",
                    text |-> "Silakan unggah file DEM"]>>
    /\ pc' = "done"
    /\ UNCHANGED <<script, mode, rain_mm_per_hour, duration_minutes, threshold,
                   dem_file, elevation, bounds, rows, cols, x, y, inflow_volume,
                   water_level, max_pos, max_water, fig, frames, t, fig_anim>>

\* else: st.warning / st.info asking for a DEM
Prompt ==
    /\ pc = "start" /\ dem_file = None
    /\ notice' = <<[kind |-> IF script = Banjir THEN "warning" ELSE "info",
                    text |-> "Silakan unggah file DEM"]>>
    /\ pc' = "done"
    /\ UNCHANGED <<script, mode, rain_mm_per_hour, duration_minutes, threshold,
                   dem_file, elevation, bounds, rows, cols, x, y, inflow_volume,
                   water_level, max_pos, max_water, fig, frames, t, fig_anim>>

\* dataset.read(1), nan_to_num, dataset.bounds (load_dem in uji_coba)
LoadDem ==
    /\ pc = "start" /\ dem_file # None
    /\ elevation' = nan_to_num(dem_file.data, nanmin(dem_file.data))
    /\ bounds' = dem_file.bounds
    /\ pc' = IF script = UjiCoba THEN "resize" ELSE "coords"
    /\ UNCHANGED <<script, mode, rain_mm_per_hour, duration_minutes, threshold,
                   dem_file, rows, cols, x, y, inflow_volume, water_level,
                   max_pos, max_water, notice, fig, frames, t, fig_anim>>

\* uji_coba: scale and cv2.resize; an empty dsize is a cv2.error, which ends
\* the run.
Resize ==
    /\ pc = "resize"
    /\ LET scale == Scale(MAX_RES, elevation)
           size  == dsize(elevation, scale)
       IN IF size[1] = 0 \/ size[2] = 0
          THEN pc' = "error" /\ UNCHANGED elevation
          ELSE pc' = "coords" /\ elevation' = INTER_AREA(elevation, scale, size)
    /\ UNCHANGED <<script, mode, rain_mm_per_hour, duration_minutes, threshold,
                   dem_file, bounds, rows, cols, x, y, inflow_volume,
                   water_level, max_pos, max_water, notice, fig, frames, t,
                   fig_anim>>

\* rows, cols = elevation.shape; x, y = the two linspace
Coordinates ==
    /\ pc = "coords"
    /\ rows' = Rows(elevation) /\ cols' = Cols(elevation)
    /\ x' = linspace(bounds.left, bounds.right, Cols(elevation))
    /\ y' = linspace(bounds.top, bounds.bottom, Rows(elevation))
    /\ pc' = "hitung"
    /\ UNCHANGED <<script, mode, rain_mm_per_hour, duration_minutes, threshold,
                   dem_file, elevation, bounds, inflow_volume, water_level,
                   max_pos, max_water, notice, fig, frames, t, fig_anim>>

\* Mutant of inflow: the minutes not converted to seconds.
inflow_minutes(rain, minutes) == Rat(rain * minutes, 3600 * 1000)

\* rain_mm_per_hour / 3600 / 1000 * (duration_minutes * 60)
inflow(rain, minutes) == Rat(rain * minutes * 60, 3600 * 1000)

\* max_water > threshold
Exceeds(depth, limit) == FLess(FFromRat(limit), depth)

\* inflow_volume, water_level, max_pos, max_water and the st.error or
\* st.success
Estimate ==
    /\ pc = "hitung"
    /\ LET volume == inflow(rain_mm_per_hour, duration_minutes)
           wl     == level(volume, elevation)
           pos    == argmax(wl)
           depth  == wl[pos[1]][pos[2]]
       IN /\ inflow_volume' = volume
          /\ water_level' = wl
          /\ max_pos' = pos
          /\ max_water' = depth
          /\ notice' = IF Exceeds(depth, threshold)
                       THEN <<[kind |-> "error", text |-> "Banjir",
                               genangan |-> depth,
                               X |-> x[pos[2]], Y |-> y[pos[1]]]>>
                       ELSE <<[kind |-> "success", text |-> "Tidak ada genangan"]>>
    /\ pc' = "static"
    /\ UNCHANGED <<script, mode, rain_mm_per_hour, duration_minutes, threshold,
                   dem_file, elevation, bounds, rows, cols, x, y, fig, frames,
                   t, fig_anim>>

\* the static go.Surface chart; frames = []
PlotStatic ==
    /\ pc = "static"
    /\ fig' = <<[z |-> water_level, x |-> "X", y |-> "Y"]>>
    /\ frames' = << >>
    /\ t' = 1
    /\ pc' = "frames"
    /\ UNCHANGED <<script, mode, rain_mm_per_hour, duration_minutes, threshold,
                   dem_file, elevation, bounds, rows, cols, x, y, inflow_volume,
                   water_level, max_pos, max_water, notice, fig_anim>>

\* Mutant of volume_t: the fraction counted down, (steps - t + 1) / steps.
volume_t_reversed(volume, k, n) == Rat(volume.n * (n - k + 1), volume.d * n)

\* inflow_volume * (t / steps)
volume_t(volume, k, n) == Rat(volume.n * k, volume.d * n)

\* one pass of "for t in range(1, steps + 1)"
FrameStep ==
    /\ pc = "frames" /\ t <= steps
    /\ frames' = Append(frames,
                   [z |-> level(volume_t(inflow_volume, t, steps), elevation),
                    x |-> "X", y |-> "Y"])
    /\ t' = t + 1
    /\ UNCHANGED <<script, mode, rain_mm_per_hour, duration_minutes, threshold,
                   dem_file, pc, elevation, bounds, rows, cols, x, y,
                   inflow_volume, water_level, max_pos, max_water, notice, fig,
                   fig_anim>>

\* initial_surface = frames[0].data[0]; the animated chart
PlotAnim ==
    /\ pc = "frames" /\ t > steps
    /\ fig_anim' = <<[data |-> frames[1], frames |-> frames,
                      duration |-> (durasi_animasi * 1000) \div steps]>>
    /\ pc' = "done"
    /\ UNCHANGED <<script, mode, rain_mm_per_hour, duration_minutes, threshold,
                   dem_file, elevation, bounds, rows, cols, x, y, inflow_volume,
                   water_level, max_pos, max_water, notice, fig, frames, t>>

Next ==
    \/ Prompt
    \/ LoadDem
    \/ Resize
    \/ Coordinates
    \/ Estimate
    \/ PlotStatic
    \/ FrameStep
    \/ PlotAnim

Spec == Init /\ [][Next]_vars

\* ------------------------------------------------------------------------
\* Properties

\* The grid the estimator works on is there (after any resize).
HasGrid == dem_file # None /\ pc \in {"hitung", "static", "frames", "done"}

\* The estimator has run.
Estimated == dem_file # None /\ pc \in {"static", "frames", "done"}

At(g, p) == g[p[1]][p[2]]

NonNeg(g) == \A p \in Cells(g) : FLeq(FZero, At(g, p))

GridLeq(g, h) == \A p \in Cells(g) : FLeq(At(g, p), At(h, p))

\* inflow_volume - elevation + min before the clamp, at cell p
Unclamped(volume, p) ==
    FAdd(FSub(FFromRat(volume), At(elevation, p)), min(elevation))

\* C1: every cell of the water level grid is >= 0, in the static grid and
\* in every animation frame.
C1_WaterLevelNonNegative ==
    /\ Estimated => NonNeg(water_level)
    /\ \A k \in 1..Len(frames) : NonNeg(frames[k].z)

\* A finished run in which the clamp acted on a cell of the static grid and
\* of the first frame, while another cell holds water.
C1_Witness ==
    /\ Estimated /\ pc = "done" /\ Len(frames) = steps
    /\ \E p \in Cells(water_level) :
          /\ FLess(Unclamped(inflow_volume, p), FZero)
          /\ At(water_level, p) = FZero
          /\ At(frames[1].z, p) = FZero
    /\ \E p \in Cells(water_level) : FLess(FZero, At(frames[1].z, p))

\* C5: no cell's water level decreases from one frame to the next, nor from
\* the last frame (time fraction 1) to the static grid; the order of float32
\* being transitive, a later time fraction never gives a lower level.
C5_Monotone ==
    /\ \A k \in 1..(Len(frames) - 1) : GridLeq(frames[k].z, frames[k + 1].z)
    /\ \A k \in 1..Len(frames) : k = steps => GridLeq(frames[k].z, water_level)

\* A finished animation in which a cell rose between two frames and was dry
\* in the first.
C5_Witness ==
    /\ Estimated /\ pc = "done" /\ Len(frames) = steps
    /\ \E p \in Cells(water_level), k \in 1..(steps - 1) :
          /\ FLess(At(frames[k].z, p), At(frames[k + 1].z, p))
          /\ At(frames[1].z, p) = FZero

IsPrompt(n) == n.kind \in {"warning", "info"}

\* C8: without an uploaded raster nothing is computed or drawn and the run
\* ends with exactly the prompt; a prompt is shown only without a raster.
C8_NoRasterOnlyPrompt ==
    /\ dem_file = None =>
          /\ elevation = Empty /\ water_level = Empty /\ max_pos = Empty
          /\ fig = Empty /\ frames = Empty /\ fig_anim = Empty
          /\ pc \in {"start", "done"}
          /\ pc = "done" => Len(notice) = 1 /\ IsPrompt(notice[1])
          /\ pc = "start" => notice = Empty
    /\ \A i \in 1..Len(notice) : IsPrompt(notice[i]) => dem_file = None

\* A run without a raster that has ended with the prompt.
C8_Witness == dem_file = None /\ pc = "done" /\ IsPrompt(notice[1])

\* The grid is the uploaded one with every NaN replaced by the least sample.
Cleaned(g, raw) ==
    /\ DOMAIN g = DOMAIN raw
    /\ \A p \in Cells(raw) :
          /\ ~IsNaN(At(g, p))
          /\ IsNaN(At(raw, p)) => At(g, p) = nanmin(raw)
          /\ ~IsNaN(At(raw, p)) => At(g, p) = At(raw, p)

\* The grid as load time left it: before the resize in uji_coba, for the
\* rest of the run in banjir_new3.
AsLoaded ==
    /\ dem_file # None
    /\ pc = "resize" \/ (script = Banjir /\ pc # "start")

C2_NeverUpsamples ==
    /\ pc # "error"
    /\ (script = UjiCoba /\ (pc = "coords" \/ HasGrid)) =>
          /\ Rows(elevation) <= MAX_RES /\ Cols(elevation) <= MAX_RES
          /\ Rows(elevation) <= Rows(dem_file.data)
          /\ Cols(elevation) <= Cols(dem_file.data)

Grid2x2(a, b, c, d) ==
    [r \in 0..1 |-> [k \in 0..1 |->
        IF r = 0 THEN (IF k = 0 THEN a ELSE b) ELSE (IF k = 0 THEN c ELSE d)]]

\* The concrete scenario: [[0, 1], [2, 3]] on the unit square, 3600 mm/h
\* for 60 minutes, estimated.
InScenario ==
    /\ Estimated /\ dem_file = Scenario(1)
    /\ rain_mm_per_hour = 3600 /\ duration_minutes = 60

\* C3 as stated: in the scenario the inflow depth is 1 m, the least
\* elevation 0, the water levels [[1, 0], [0, 0]] and the peak 1.0 at (0, 0).
C3_ScenarioAsStated ==
    InScenario =>
        /\ RatEq(inflow_volume, Rat(1, 1))
        /\ min(elevation) = FZero
        /\ water_level = Grid2x2(FInt(1), FZero, FZero, FZero)
        /\ max_pos = <<0, 0>> /\ max_water = FInt(1)

\* 3.6, 2.6, 1.6 and 0.6 in float32: the float32 of 18/5, less 0, 1, 2, 3.
F3_6 == [m |-> 15099494, e |-> -22]

F2_6 == [m |-> 10905190, e |-> -22]

F1_6 == [m |-> 13421772, e |-> -23]

F0_6 == [m |-> 10066328, e |-> -24]

\* C3, amended: in the scenario the inflow depth is 3.6 m, the least
\* elevation 0, the water levels [[3.6, 2.6], [1.6, 0.6]] (as float32) and
\* the peak 3.6 at (0, 0).
C3_Scenario ==
    InScenario =>
        /\ RatEq(inflow_volume, Rat(18, 5))
        /\ min(elevation) = FZero
        /\ water_level = Grid2x2(F3_6, F2_6, F1_6, F0_6)
        /\ max_pos = <<0, 0>> /\ max_water = F3_6

\* The scenario, run to its end.
C3_Witness == InScenario /\ pc = "done" /\ water_level[1][1] = F0_6

\* C4 as stated: with a positive inflow every cell of least elevation holds
\* the greatest water level, and the peak cell is a cell of least elevation.
C4_PeakAtMinElevation ==
    (Estimated /\ inflow_volume.n > 0) =>
        /\ \A p \in Cells(elevation) :
              At(elevation, p) = min(elevation) =>
                 \A q \in Cells(elevation) :
                    FLeq(At(water_level, q), At(water_level, p))
        /\ At(elevation, max_pos) = min(elevation)

\* The raster spans the square from 0 to 10.
OnTenSquare == bounds = Bounds(0, 10, 10, 0)

\* C6 as stated: on the square from 0 to 10, x is 0 at column 0 and 10 at
\* column C-1, y is 10 at row 0 and 0 at row R-1, for all R, C >= 1.
C6_EndpointsAsStated ==
    (HasGrid /\ OnTenSquare) =>
        /\ RatEq(x[0], Rat(0, 1)) /\ RatEq(x[cols - 1], Rat(10, 1))
        /\ RatEq(y[0], Rat(10, 1)) /\ RatEq(y[rows - 1], Rat(0, 1))

\* C6, amended: on the square from 0 to 10, x is 0 at column 0 and y is 10
\* at row 0; with C >= 2 columns x is 10 at column C-1, with R >= 2 rows y
\* is 0 at row R-1; in between x and y are linear in the index.
C6_Endpoints ==
    (HasGrid /\ OnTenSquare) =>
        /\ DOMAIN x = 0..(cols - 1) /\ DOMAIN y = 0..(rows - 1)
        /\ RatEq(x[0], Rat(0, 1)) /\ RatEq(y[0], Rat(10, 1))
        /\ cols >= 2 => /\ RatEq(x[cols - 1], Rat(10, 1))
                        /\ \A c \in 0..(cols - 1) : RatEq(x[c], Rat(10 * c, cols - 1))
        /\ rows >= 2 => /\ RatEq(y[rows - 1], Rat(0, 1))
                        /\ \A r \in 0..(rows - 1) :
                              RatEq(y[r], Rat(10 * (rows - 1 - r), rows - 1))

\* A grid of several rows and several columns on the square from 0 to 10,
\* with its coordinates computed.
C6_Witness ==
    /\ HasGrid /\ OnTenSquare /\ rows = 2 /\ cols = 2
    /\ X[1][1] = Rat(10, 1) /\ Y[1][1] = Rat(0, 1)

\* C7 as stated: a run with a raster ends with exactly N frames, the k-th
\* the water levels at time fraction k/N of the full inflow on the one
\* elevation grid, N being 10 in mode Ringan and 20 otherwise; the chart
\* first shows frame 1.
C7_FramesOfEveryRun ==
    (dem_file # None /\ pc \in {"done", "error"}) =>
        /\ Len(frames) = (IF mode = "Ringan" THEN 10 ELSE 20)
        /\ \A k \in 1..Len(frames) :
              frames[k].z =
                 level(volume_t(inflow(rain_mm_per_hour, duration_minutes),
                                k, Len(frames)), elevation)
        /\ Len(fig_anim) = 1 /\ fig_anim[1].frames = frames
        /\ fig_anim[1].data = frames[1]

\* The first cell of least elevation, in row-major order.
FirstMin(g) ==
    CHOOSE p \in Cells(g) :
        /\ At(g, p) = min(g)
        /\ \A q \in Cells(g) : At(g, q) = min(g) => Flat(g, p) <= Flat(g, q)

\* inflow_volume > threshold, on the Python floats
RatLess(p, q) == p.n * q.d < q.n * p.d

\* C10 as stated: the peak value is the inflow depth exactly, the notice is
\* the flood notice iff the inflow depth exceeds the threshold, and the peak
\* is at the first cell of least elevation.
C10_PeakIsInflow ==
    Estimated =>
        /\ max_water = FFromRat(inflow_volume)
        /\ notice[1].kind = "error" <=> RatLess(threshold, inflow_volume)
        /\ max_pos = FirstMin(elevation)

=============================================================================
